---- MODULE Spec2Model ----
(***************************************************************************)
(* Model of the Minecraft Anvil import stage                               *)
(* (src/server/world/generators/minecraft.rs): the packed-index codec,     *)
(* the region locator, the schema-tolerant section lookup, the block-name  *)
(* resolver with its RwLock-guarded cache, and the chunk import stage.     *)
(***************************************************************************)
EXTENDS Integers, Sequences, FiniteSets, TLC

VARIABLES
    \* packed-index codec
    palette_len,    \* argument palette_len of decode_block_states / bits_for_palette
    data,           \* argument data: sequence of i64 words, each a sequence of 64 bits, LSB first
    src,            \* the index sequence the words were packed from (<<>> for raw words)
    cpc,            \* "decode" | "bits" : call pending, "decoded" | "bitsdone" : returned, "off"
    indices,        \* value returned by decode_block_states
    pushed,         \* number of indices pushed by the decode loop before the zero fill
    bits_out        \* value returned by bits_for_palette

VARIABLES
    \* region locator
    coords,          \* chunk.coords = (chunk_x, chunk_z)
    overflow_checks, \* build profile: TRUE when integer overflow panics (debug), FALSE when it wraps
    lpc,             \* "locate" : call pending, "returned", "off"
    located          \* outcome of the first lines of load_chunk

VARIABLES
    \* the stage (MinecraftAnvilStage) and the host registry
    mapping,         \* self.mapping: lowercased external name -> destination name
    registry,        \* registry.blocks_by_name: lowercase name -> block id
    default_block,   \* self.default_block
    resolved,        \* self.resolved: the cache behind the RwLock, name -> id
    \* threads calling resolve_block_id on the shared stage
    tpc,             \* per thread: "idle" | "read" | "resolve" | "write"
    tname,           \* per thread: mc_name of the current (or last) call
    tblock,          \* per thread: local block_id
    tret,            \* per thread: <<id>> returned by the last call, <<>> while it runs
    calls_left,      \* calls the threads may still start
    looked,          \* per thread: the call has consulted registry.blocks_by_name
    touched,         \* per thread: the call has taken the cache lock
    late,            \* per thread: <<id>> when a call for the same name had returned id before this call began
    completed        \* name -> id returned by the first completed call for that name

VARIABLES
    \* the chunk import stage
    y_offset,        \* self.y_offset
    world,           \* the region file under world_path that process may read
    chunk,           \* the chunk handed to process: coords and min
    max_height,      \* resources.config.max_height
    ppc,             \* "process" : call pending, "returned", "off"
    loaded,          \* load_chunk returned Some(raw_chunk)
    sections,        \* value of raw_chunk.into_sections()
    set_calls,       \* the chunk.set_voxel(vx, vy, vz, id) calls made, in order
    resolve_count    \* number of resolve_block_id calls made by process

codecVars == <<palette_len, data, src, cpc, indices, pushed, bits_out>>
locVars == <<coords, overflow_checks, lpc, located>>
stageVars == <<mapping, registry, default_block>>
threadVars == <<tpc, tname, tblock, tret, calls_left, looked, touched, late, completed>>

procVars == <<y_offset, world, chunk, max_height, ppc, loaded, sections, set_calls, resolve_count>>

vars == <<codecVars, locVars, stageVars, resolved, threadVars, procVars>>

(***************************************************************************)
(* Program constants                                                       *)
(***************************************************************************)
REGION_SIZE == 32
SECTION_VOLUME == 4096
I64Bits == 64
U128Bits == 128

(***************************************************************************)
(* Bounds of the model                                                     *)
(***************************************************************************)
MaxPaletteLen == 512    \* palette lengths handed to bits_for_palette
MaxWords == 3           \* length of the raw (truncated) word sequences
MaxGenLen == 2          \* period of the index patterns that are packed
MaxNameLen == 3         \* length of the generated block names
NumThreads == 2         \* threads sharing one stage
MaxCalls == 3           \* resolve_block_id calls made by the threads together
MaxSections == 1        \* sections in the generated section lists
MaxDamage == 2          \* fields in which a region file differs from a readable one
EdgeSpan == 31          \* chunk coordinates within EdgeSpan of i32::MIN and i32::MAX
NearSpan == 33          \* chunk coordinates in -NearSpan..NearSpan

(***************************************************************************)
(* Bit vectors.  A word is a sequence of bits (0/1), least significant     *)
(* first; SubSeq makes TLC build the tuple at once.                        *)
(***************************************************************************)
Tuple(f, n) == SubSeq(f, 1, n)
Zeros(n) == Tuple([i \in 1..n |-> 0], n)

RECURSIVE Pow2(_)
Pow2(n) == IF n = 0 THEN 1 ELSE 2 * Pow2(n - 1)

\* (x as usize) of the low k bits of a bit vector
RECURSIVE BitsToNat(_, _)
BitsToNat(S, k) == IF k = 0 THEN 0 ELSE 2 * BitsToNat(Tail(S), k - 1) + Head(S)

\* (*value as u128) for value: i64 -- a signed source is sign-extended
AsU128(w) == w \o Tuple([i \in 1..(U128Bits - I64Bits) |-> w[I64Bits]], U128Bits - I64Bits)

\* u128 << n (n < 128): bits shifted past bit 127 are dropped
Shl(S, n) == SubSeq(Zeros(n) \o S, 1, U128Bits)

\* u128 >> n: logical shift
Shr(S, n) == SubSeq(S, n + 1, U128Bits) \o Zeros(n)

\* u128 | u128
BitOr(a, b) == Tuple([i \in 1..U128Bits |-> IF a[i] = 1 \/ b[i] = 1 THEN 1 ELSE 0], U128Bits)

(***************************************************************************)
(* bits_for_palette                                                        *)
(***************************************************************************)
Max(a, b) == IF a >= b THEN a ELSE b
Min(a, b) == IF a <= b THEN a ELSE b

\* while value > 0 { bits += 1; value >>= 1; }
RECURSIVE BitLoop(_, _)
BitLoop(bits, value) == IF value > 0 THEN BitLoop(bits + 1, value \div 2) ELSE bits

bits_for_palette_from_len(len) == Max(BitLoop(0, len), 4)

bits_for_palette(len) == Max(BitLoop(0, len - 1), 4)

(***************************************************************************)
(* decode_block_states                                                     *)
(***************************************************************************)
\* state of the loop: accumulator, bits_in_acc, iter (words consumed),
\* indices, and whether the function has returned from inside the loop
DecodeStart ==
    [accumulator |-> Zeros(U128Bits), bits_in_acc |-> 0, iter |-> 0,
     indices |-> <<>>, returned |-> FALSE]

\* while bits_in_acc < bits { if let Some(value) = iter.next() {..} else { return } }
RECURSIVE Refill(_, _, _)
Refill(st, words, bits) ==
    IF st.bits_in_acc >= bits THEN st
    ELSE IF st.iter < Len(words)
         THEN Refill([st EXCEPT
                        !.accumulator = BitOr(st.accumulator,
                                              Shl(AsU128(words[st.iter + 1]), st.bits_in_acc)),
                        !.bits_in_acc = st.bits_in_acc + I64Bits,
                        !.iter = st.iter + 1], words, bits)
         ELSE [st EXCEPT !.returned = TRUE]

\* one iteration of  for _ in 0..SECTION_VOLUME
DecodeStep(st, words, bits) ==
    LET s1 == Refill(st, words, bits) IN
    IF s1.returned THEN s1
    ELSE [s1 EXCEPT !.indices = Append(s1.indices, BitsToNat(s1.accumulator, bits)),
                    !.accumulator = Shr(s1.accumulator, bits),
                    !.bits_in_acc = s1.bits_in_acc - bits]

\* n iterations of the loop; an early return ends it
RECURSIVE DecodeLoop(_, _, _, _)
DecodeLoop(st, words, bits, n) ==
    IF n = 0 \/ st.returned THEN st
    ELSE IF n = 1 THEN DecodeStep(st, words, bits)
    ELSE LET mid == DecodeLoop(st, words, bits, n \div 2) IN
         IF mid.returned THEN mid
         ELSE DecodeLoop(mid, words, bits, n - (n \div 2))

\* the indices the loop pushed, before indices.resize(SECTION_VOLUME, 0)
decode_pushed(words, len) ==
    IF len <= 1 \/ Len(words) = 0 THEN <<>>
    ELSE DecodeLoop(DecodeStart, words, bits_for_palette(len), SECTION_VOLUME).indices

decode_block_states_short(words, len) == decode_pushed(words, len)

decode_block_states(words, len) ==
    LET p == decode_pushed(words, len) IN p \o Zeros(SECTION_VOLUME - Len(p))

(***************************************************************************)
(* Inputs of the codec                                                     *)
(***************************************************************************)
ZeroWord == Zeros(I64Bits)
OnesWord == Tuple([i \in 1..I64Bits |-> 1], I64Bits)
SignWord == Tuple([i \in 1..I64Bits |-> IF i = I64Bits THEN 1 ELSE 0], I64Bits)
MixWord  == Tuple([i \in 1..I64Bits |-> IF i % 3 = 1 THEN 1 ELSE 0], I64Bits)
RawWords == {ZeroWord, OnesWord, SignWord, MixWord}
RawSeqs == UNION {[1..n -> RawWords] : n \in 0..MaxWords}
RawPaletteLens == {0, 1, 2, 16, 17, 100, 257}

\* the encoder of the round trip: indices packed LSB first into one
\* continuous bitstream of 64-bit words
Pow2Table == <<1, 2, 4, 8, 16, 32, 64, 128, 256, 512, 1024, 2048, 4096>>
PackBit(idx, b, q) == (idx[(q \div b) + 1] \div Pow2Table[(q % b) + 1]) % 2
PackWord(idx, b, w) ==
    Tuple([p \in 1..I64Bits |->
             IF (I64Bits * (w - 1) + p - 1) \div b < Len(idx)
             THEN PackBit(idx, b, I64Bits * (w - 1) + p - 1) ELSE 0], I64Bits)
Pack(idx, b) ==
    LET nw == (Len(idx) * b + I64Bits - 1) \div I64Bits
    IN Tuple([w \in 1..nw |-> PackWord(idx, b, w)], nw)

PackedWidths == 4..9
GenValues(len) == {0, len - 1}
Gens(len) == UNION {[1..n -> GenValues(len)] : n \in 1..MaxGenLen}
Pattern(gen) == Tuple([i \in 1..SECTION_VOLUME |-> gen[((i - 1) % Len(gen)) + 1]], SECTION_VOLUME)

CodecOff ==
    /\ palette_len = 0 /\ data = <<>> /\ src = <<>> /\ cpc = "off"
    /\ indices = <<>> /\ pushed = 0 /\ bits_out = 0

InitCodec ==
    /\ indices = <<>> /\ pushed = 0 /\ bits_out = 0
    /\ \/ /\ cpc = "decode"
          /\ palette_len \in RawPaletteLens
          /\ data \in RawSeqs
          /\ src = <<>>
       \/ /\ cpc = "decode"
          /\ \E b \in PackedWidths : \E gen \in Gens(Pow2(b)) :
                /\ palette_len = Pow2(b)
                /\ src = Pattern(gen)
                /\ data = Pack(src, b)
       \/ /\ cpc = "bits"
          /\ palette_len \in 1..MaxPaletteLen
          /\ data = <<>> /\ src = <<>>

\* a call decode_block_states(data, palette_len)
DecodeBlockStates ==
    /\ cpc = "decode"
    /\ indices' = decode_block_states(data, palette_len)
    /\ pushed' = Len(decode_pushed(data, palette_len))
    /\ cpc' = "decoded"
    /\ UNCHANGED <<palette_len, data, src, bits_out>>
    /\ UNCHANGED <<locVars, stageVars, resolved, threadVars, procVars>>

\* a call bits_for_palette(palette_len)
BitsForPalette ==
    /\ cpc = "bits"
    /\ bits_out' = bits_for_palette(palette_len)
    /\ cpc' = "bitsdone"
    /\ UNCHANGED <<palette_len, data, src, indices, pushed>>
    /\ UNCHANGED <<locVars, stageVars, resolved, threadVars, procVars>>

(***************************************************************************)
(* i32 arithmetic.  An overflowing +, - or * panics when the build has      *)
(* overflow checks and wraps modulo 2^32 otherwise; the operators below     *)
(* give the wrapped value and say whether the exact one was out of range.   *)
(***************************************************************************)
I32Max == 2147483647
I32Min == (-2147483647) - 1

AddOverflows(a, b) == \/ b > 0 /\ a > I32Max - b
                      \/ b < 0 /\ a < I32Min - b
WrapAdd(a, b) ==
    IF ~AddOverflows(a, b) THEN a + b
    ELSE IF b > 0 THEN (a + I32Min) + (b + I32Min)
    ELSE (a - I32Min) + (b - I32Min)

SubOverflows(a, b) == \/ b > 0 /\ a < I32Min + b
                      \/ b < 0 /\ a > I32Max + b
WrapSub(a, b) ==
    IF ~SubOverflows(a, b) THEN a - b
    ELSE IF b > 0 THEN (a - I32Min) + ((I32Max - b) + 1)
    ELSE (a + I32Min) + (I32Min - b)

\* a * b for b > 0
MulOverflows(a, b) == a > I32Max \div b \/ a < (I32Min + (b - 1)) \div b
RECURSIVE WrapMul(_, _)
WrapMul(a, b) ==
    IF b = 0 THEN 0
    ELSE IF b % 2 = 0 THEN LET h == WrapMul(a, b \div 2) IN WrapAdd(h, h)
    ELSE WrapAdd(WrapMul(a, b - 1), a)

\* a / b and a % b of Rust for b > 0: the quotient truncates toward zero
TruncDiv(a, b) == IF a >= 0 THEN a \div b ELSE (a + (b - 1)) \div b
TruncRem(a, b) == a - TruncDiv(a, b) * b

(***************************************************************************)
(* split_region_coord                                                      *)
(***************************************************************************)
Panic == [panic |-> TRUE]

split_region_coord(value, checks) ==
    LET t1 == value + 1          \* only evaluated for value < 0
        o1 == value < 0 /\ SubOverflows(t1, REGION_SIZE)
        region == IF value >= 0 THEN TruncDiv(value, REGION_SIZE)
                  ELSE TruncDiv(WrapSub(t1, REGION_SIZE), REGION_SIZE)
        o2 == MulOverflows(region, REGION_SIZE)
        prod == WrapMul(region, REGION_SIZE)
        o3 == SubOverflows(value, prod)
        local == WrapSub(value, prod)
        r1 == TruncRem(local, REGION_SIZE)
    IN IF checks /\ (o1 \/ o2 \/ o3) THEN Panic
       ELSE [panic |-> FALSE, region |-> region,
             local |-> TruncRem(r1 + REGION_SIZE, REGION_SIZE)]

\* load_chunk up to the header slot: both splits and
\* index = (local_z * REGION_SIZE + local_x) as usize
locate(chunk_x, chunk_z, checks) ==
    LET x == split_region_coord(chunk_x, checks)
        z == split_region_coord(chunk_z, checks)
    IN IF x.panic \/ z.panic THEN Panic
       ELSE [panic |-> FALSE, region_x |-> x.region, local_x |-> x.local,
             region_z |-> z.region, local_z |-> z.local,
             index |-> z.local * REGION_SIZE + x.local]

I32Samples ==
    {I32Min + k : k \in 0..EdgeSpan} \cup {I32Max - k : k \in 0..EdgeSpan}
        \cup ((-NearSpan)..NearSpan)

LocOff == coords = <<0, 0>> /\ overflow_checks = FALSE /\ lpc = "off" /\ located = Panic

InitLoc ==
    /\ coords \in I32Samples \X I32Samples
    /\ overflow_checks \in BOOLEAN
    /\ lpc = "locate"
    /\ located = Panic

\* load_chunk(chunk_x, chunk_z) up to the computation of the header index
LocateRegion ==
    /\ lpc = "locate"
    /\ located' = locate(coords[1], coords[2], overflow_checks)
    /\ lpc' = "returned"
    /\ UNCHANGED <<coords, overflow_checks>>
    /\ UNCHANGED <<codecVars, stageVars, resolved, threadVars, procVars>>

(***************************************************************************)
(* Strings: sequences of characters                                        *)
(***************************************************************************)
AirName == <<"m", "i", "n", "e", "c", "r", "a", "f", "t", ":", "a", "i", "r">>
AirCaps == <<"m", "i", "n", "e", "c", "r", "a", "f", "t", ":", "A", "i", "r">>

\* char::to_lowercase on the characters in use
LowerChar(c) == IF c = "A" THEN "a" ELSE c

\* str::to_lowercase
to_lowercase(s) == Tuple([i \in 1..Len(s) |-> LowerChar(s[i])], Len(s))

\* str::split_once(':'): <<>> when s has no ':', else <<the part after the first ':'>>
split_once(s) ==
    IF \E i \in 1..Len(s) : s[i] = ":"
    THEN LET i == CHOOSE k \in 1..Len(s) : s[k] = ":" /\ \A j \in 1..(k - 1) : s[j] # ":"
         IN <<SubSeq(s, i + 1, Len(s))>>
    ELSE <<>>

(***************************************************************************)
(* MinecraftAnvilStage: construction and resolve_block_id                  *)
(***************************************************************************)
\* with_mapping: the keys are lowercased; when two keys collide the entry
\* that survives is the one the HashMap iteration yields last
with_mapping(raw) ==
    LET keys == {to_lowercase(k) : k \in DOMAIN raw}
    IN {m \in [keys -> {raw[k] : k \in DOMAIN raw}] :
          \A lk \in keys : \E k \in DOMAIN raw : to_lowercase(k) = lk /\ raw[k] = m[lk]}

\* mapped_name: Option<String> as a sequence of length 0 or 1
mapped_name_no_override(m, mc_name) == split_once(mc_name)

mapped_name(m, mc_name) ==
    IF to_lowercase(mc_name) \in DOMAIN m THEN <<m[to_lowercase(mc_name)]>>
    ELSE split_once(mc_name)

\* mapped_name.and_then(|name| blocks_by_name.get(&name.to_lowercase())).unwrap_or(default_block)
lookup_block_id(reg, def, mapped) ==
    IF mapped # <<>> /\ to_lowercase(mapped[1]) \in DOMAIN reg
    THEN reg[to_lowercase(mapped[1])]
    ELSE def

\* cache.insert(mc_name.to_owned(), block_id)
cache_insert_only(cache, name, id) == [k \in {name} |-> id]

cache_insert_dropped(cache, name, id) == cache

cache_insert(cache, name, id) ==
    [k \in (DOMAIN cache) \cup {name} |-> IF k = name THEN id ELSE cache[k]]

EmptyCache == [k \in {} |-> 0]

\* a whole call of resolve_block_id with no other thread in between:
\* the id returned and the cache afterwards
resolve_block_id(cache, m, reg, def, mc_name) ==
    IF mc_name = AirName THEN [id |-> 0, cache |-> cache]
    ELSE IF mc_name \in DOMAIN cache THEN [id |-> cache[mc_name], cache |-> cache]
    ELSE LET id == lookup_block_id(reg, def, mapped_name(m, mc_name))
         IN [id |-> id, cache |-> cache_insert(cache, mc_name, id)]

Threads == 1..NumThreads

Complete(name, id) ==
    completed' = IF name \in DOMAIN completed THEN completed
                 ELSE [k \in (DOMAIN completed) \cup {name} |-> IF k = name THEN id ELSE completed[k]]

\* entry of resolve_block_id(registry, mc_name), with the test for the air sentinel
Call(t, mc_name) ==
    /\ tpc[t] = "idle" /\ calls_left > 0
    /\ calls_left' = calls_left - 1
    /\ tname' = [tname EXCEPT ![t] = mc_name]
    /\ tblock' = [tblock EXCEPT ![t] = 0]
    /\ looked' = [looked EXCEPT ![t] = FALSE]
    /\ touched' = [touched EXCEPT ![t] = FALSE]
    /\ late' = [late EXCEPT ![t] = IF mc_name \in DOMAIN completed
                                   THEN <<completed[mc_name]>> ELSE <<>>]
    /\ IF mc_name = AirName
       THEN /\ tret' = [tret EXCEPT ![t] = <<0>>]
            /\ Complete(mc_name, 0)
            /\ UNCHANGED tpc
       ELSE /\ tret' = [tret EXCEPT ![t] = <<>>]
            /\ tpc' = [tpc EXCEPT ![t] = "read"]
            /\ UNCHANGED completed
    /\ UNCHANGED <<codecVars, locVars, stageVars, resolved, procVars>>

\* self.resolved.read() ... cache.get(mc_name).copied(): a hit returns
ReadCache(t) ==
    /\ tpc[t] = "read"
    /\ touched' = [touched EXCEPT ![t] = TRUE]
    /\ IF tname[t] \in DOMAIN resolved
       THEN /\ tret' = [tret EXCEPT ![t] = <<resolved[tname[t]]>>]
            /\ tpc' = [tpc EXCEPT ![t] = "idle"]
            /\ Complete(tname[t], resolved[tname[t]])
       ELSE /\ tpc' = [tpc EXCEPT ![t] = "resolve"]
            /\ UNCHANGED <<tret, completed>>
    /\ UNCHANGED <<tname, tblock, calls_left, looked, late>>
    /\ UNCHANGED <<codecVars, locVars, stageVars, resolved, procVars>>

\* mapped_name and block_id, outside any lock
Resolve(t) ==
    /\ tpc[t] = "resolve"
    /\ LET mapped == mapped_name(mapping, tname[t])
       IN /\ tblock' = [tblock EXCEPT ![t] = lookup_block_id(registry, default_block, mapped)]
          /\ looked' = [looked EXCEPT ![t] = mapped # <<>>]
    /\ tpc' = [tpc EXCEPT ![t] = "write"]
    /\ UNCHANGED <<tname, tret, calls_left, touched, late, completed>>
    /\ UNCHANGED <<codecVars, locVars, stageVars, resolved, procVars>>

\* self.resolved.write() ... cache.insert(..), then the return of block_id
WriteCache(t) ==
    /\ tpc[t] = "write"
    /\ resolved' = cache_insert(resolved, tname[t], tblock[t])
    /\ tret' = [tret EXCEPT ![t] = <<tblock[t]>>]
    /\ tpc' = [tpc EXCEPT ![t] = "idle"]
    /\ Complete(tname[t], tblock[t])
    /\ UNCHANGED <<tname, tblock, calls_left, looked, touched, late>>
    /\ UNCHANGED <<codecVars, locVars, stageVars, procVars>>

(***************************************************************************)
(* Schema-tolerant record: RawChunk, RawChunkLevel, RawSection             *)
(* An Option is a sequence of length 0 (None) or 1 (Some).                 *)
(***************************************************************************)
None == <<>>
Some(x) == <<x>>

RawChunkLevel_into_sections_lower_first(level) ==
    IF level.sections_lower # None THEN level.sections_lower[1]
    ELSE IF level.sections_upper # None THEN level.sections_upper[1]
    ELSE <<>>

RawChunkLevel_into_sections(level) ==
    IF level.sections_upper # None THEN level.sections_upper[1]
    ELSE IF level.sections_lower # None THEN level.sections_lower[1]
    ELSE <<>>

RawChunk_into_sections(raw) ==
    IF raw.level # None THEN RawChunkLevel_into_sections(raw.level[1])
    ELSE IF raw.sections_lower # None THEN raw.sections_lower[1]
    ELSE IF raw.sections_upper # None THEN raw.sections_upper[1]
    ELSE <<>>

\* self.palette.as_deref().or_else(|| self.palette_upper.as_deref())
RawSection_palette(section) ==
    IF section.palette # None THEN section.palette ELSE section.palette_upper

RawSection_block_states(section) ==
    IF section.block_states # None THEN section.block_states
    ELSE section.block_states_upper

(***************************************************************************)
(* load_chunk                                                              *)
(* world: the one region file r.<region[1]>.<region[2]>.mca that may exist *)
(* (exists), its size in bytes, the header slot that is not zero and its   *)
(* value (slot, location), and what the bytes at the record's offset hold: *)
(* the length field, the compression byte, the kind of stream the payload  *)
(* is ("gzip", "zlib", "garbage") and what it parses to (nbt: None when    *)
(* from_bytes fails).                                                      *)
(***************************************************************************)
SectorBytes == 4096
HeaderBytes == 4096

load_chunk_any_length(w, chunk_x, chunk_z, checks) ==
    LET loc == locate(chunk_x, chunk_z, checks)
        location == IF loc.index = w.slot THEN w.location ELSE 0
        offset == (location \div 256) * SectorBytes
        sectors == location % 256
    IN IF ~w.exists \/ w.region # <<loc.region_x, loc.region_z>> THEN None
       ELSE IF w.size < HeaderBytes THEN None
       ELSE IF location = 0 THEN None
       ELSE IF offset = 0 \/ sectors = 0 THEN None
       ELSE IF offset + 4 > w.size THEN None
       ELSE IF w.length = 0 THEN None
       ELSE IF offset + 5 > w.size THEN None
       ELSE IF offset + 5 + (w.length - 1) > w.size THEN None
       ELSE IF w.compression = 1 /\ w.payload = "gzip" THEN w.nbt
       ELSE IF w.compression = 2 /\ w.payload = "zlib" THEN w.nbt
       ELSE None

load_chunk(w, chunk_x, chunk_z, checks) ==
    LET loc == locate(chunk_x, chunk_z, checks)
        \* BigEndian::read_u32(&header[index * 4..index * 4 + 4])
        location == IF loc.index = w.slot THEN w.location ELSE 0
        offset == (location \div 256) * SectorBytes     \* (location >> 8) as u64 * 4096
        sectors == location % 256                       \* location & 0xFF
    IN \* File::open(&region_path).ok()?
       IF ~w.exists \/ w.region # <<loc.region_x, loc.region_z>> THEN None
       \* file.read_exact(&mut header).ok()?
       ELSE IF w.size < HeaderBytes THEN None
       ELSE IF location = 0 THEN None
       ELSE IF offset = 0 \/ sectors = 0 THEN None
       \* seek, then file.read_exact(&mut length_buf).ok()?
       ELSE IF offset + 4 > w.size THEN None
       ELSE IF w.length = 0 \/ w.length > sectors * SectorBytes THEN None
       \* file.read_exact(&mut compression).ok()?
       ELSE IF offset + 5 > w.size THEN None
       \* file.read_exact(&mut payload).ok()?
       ELSE IF offset + 5 + (w.length - 1) > w.size THEN None
       \* GzipDecoder / ZlibDecoder .ok()?, then from_bytes::<RawChunk>(..).ok()
       ELSE IF w.compression = 1 THEN (IF w.payload = "gzip" THEN w.nbt ELSE None)
       ELSE IF w.compression = 2 THEN (IF w.payload = "zlib" THEN w.nbt ELSE None)
       ELSE None

(***************************************************************************)
(* process                                                                 *)
(***************************************************************************)
Positions == Tuple([i \in 1..SECTION_VOLUME |-> i - 1], SECTION_VOLUME)

\* palette.iter().map(|entry| self.resolve_block_id(registry, &entry.name)).collect()
RECURSIVE ResolvePalette(_, _, _, _)
ResolvePalette(palette, k, cache, ids) ==
    IF k > Len(palette) THEN [ids |-> ids, cache |-> cache]
    ELSE LET r == resolve_block_id(cache, mapping, registry, default_block, palette[k])
         IN ResolvePalette(palette, k + 1, r.cache, Append(ids, r.id))

\* the inner loop of process: the set_voxel calls of one section
SectionCalls(idxs, palette_ids, base_y, height, min_x, min_z) ==
    LET Placed(idx) ==
            /\ idxs[idx + 1] < Len(palette_ids)
            /\ palette_ids[idxs[idx + 1] + 1] # 0
            /\ base_y + (idx \div 256) >= 0
            /\ base_y + (idx \div 256) < height
        kept == SelectSeq(Positions, Placed)
    IN Tuple([k \in 1..Len(kept) |->
                <<min_x + (kept[k] % 16),
                  base_y + (kept[k] \div 256),
                  min_z + ((kept[k] \div 16) % 16),
                  palette_ids[idxs[kept[k] + 1] + 1]>>], Len(kept))

\* one iteration of  for section in sections.iter();
\* st: the cache, the set_voxel calls and the number of resolver calls so far
ProcessSection_no_height_check(section, st, offs, height, min_x, min_z) ==
    LET palette == RawSection_palette(section)
        base_y == section.y * 16 + offs
    IN IF palette = None \/ Len(palette[1]) = 0 THEN st
       ELSE LET r == ResolvePalette(palette[1], 1, st.cache, <<>>)
                bs == RawSection_block_states(section)
                words == IF bs = None THEN <<>> ELSE bs[1]
                idxs == decode_block_states(words, Len(r.ids))
                Keep(idx) == idxs[idx + 1] < Len(r.ids) /\ r.ids[idxs[idx + 1] + 1] # 0
                kept == SelectSeq(Positions, Keep)
            IN [cache |-> r.cache,
                calls |-> st.calls \o
                    Tuple([k \in 1..Len(kept) |->
                             <<min_x + (kept[k] % 16), base_y + (kept[k] \div 256),
                               min_z + ((kept[k] \div 16) % 16),
                               r.ids[idxs[kept[k] + 1] + 1]>>], Len(kept)),
                resolves |-> st.resolves + Len(palette[1])]

ProcessSection(section, st, offs, height, min_x, min_z) ==
    LET palette == RawSection_palette(section)
        base_y == section.y * 16 + offs
    IN IF palette = None \/ Len(palette[1]) = 0 THEN st
       ELSE IF base_y >= height \/ base_y + 15 < 0 THEN st
       ELSE LET r == ResolvePalette(palette[1], 1, st.cache, <<>>)
                bs == RawSection_block_states(section)
                words == IF bs = None THEN <<>> ELSE bs[1]     \* unwrap_or(&[])
                idxs == decode_block_states(words, Len(r.ids))
            IN IF Len(r.ids) = 0 THEN st
               ELSE [cache |-> r.cache,
                     calls |-> st.calls \o SectionCalls(idxs, r.ids, base_y, height, min_x, min_z),
                     resolves |-> st.resolves + Len(palette[1])]

RECURSIVE ProcessSections(_, _, _, _, _, _, _)
ProcessSections(secs, k, st, offs, height, min_x, min_z) ==
    IF k > Len(secs) THEN st
    ELSE ProcessSections(secs, k + 1,
                         ProcessSection(secs[k], st, offs, height, min_x, min_z),
                         offs, height, min_x, min_z)

\* ChunkStage::process(chunk, resources, _)
Process ==
    /\ ppc = "process"
    /\ LET raw == load_chunk(world, chunk.coords[1], chunk.coords[2], overflow_checks)
       IN IF raw = None
          THEN /\ loaded' = FALSE
               /\ UNCHANGED <<sections, set_calls, resolve_count, resolved>>
          ELSE LET secs == RawChunk_into_sections(raw[1])
                   st == ProcessSections(secs, 1,
                             [cache |-> resolved, calls |-> <<>>, resolves |-> 0],
                             y_offset, max_height, chunk.min[1], chunk.min[3])
               IN /\ loaded' = TRUE
                  /\ sections' = secs
                  /\ set_calls' = st.calls
                  /\ resolve_count' = st.resolves
                  /\ resolved' = st.cache
    /\ ppc' = "returned"
    /\ UNCHANGED <<y_offset, world, chunk, max_height>>
    /\ UNCHANGED <<codecVars, locVars, stageVars, threadVars>>

(***************************************************************************)
(* Inputs of the resolver                                                  *)
(***************************************************************************)
NameChars == {"a", "A", ":"}
ShortNames == UNION {[1..n -> NameChars] : n \in 0..MaxNameLen}
AllNames == ShortNames \cup {AirName, AirCaps}

PartialFns(K, V) == UNION {[D -> V] : D \in SUBSET K}

RawKeys == {<<"A", ":", "a">>, <<"a">>, AirCaps}
RawTargets == {<<"A">>, <<"a", ":", "A">>}
RawMappings == PartialFns(RawKeys, RawTargets)

FullRegistry == (<<"a">> :> 5) @@ (<<"a", ":", "a">> :> 6) @@ (<<"a", "i", "r">> :> 9)
Registries == {[k \in D |-> FullRegistry[k]] : D \in SUBSET (DOMAIN FullRegistry)}

ConcNames == {AirName, <<"A", ":", "a">>, <<"a", ":", "a">>, <<"a">>}
ConcRawMappings == {EmptyCache, (<<"A", ":", "a">> :> <<"a", ":", "A">>) @@ (<<"a">> :> <<"A">>)}
ConcRegistries == {[k \in {<<"a">>} |-> 5], FullRegistry}

ThreadsOff ==
    /\ tpc = [t \in Threads |-> "idle"]
    /\ tname = [t \in Threads |-> <<>>]
    /\ tblock = [t \in Threads |-> 0]
    /\ tret = [t \in Threads |-> <<>>]
    /\ calls_left = 0
    /\ looked = [t \in Threads |-> FALSE]
    /\ touched = [t \in Threads |-> FALSE]
    /\ late = [t \in Threads |-> <<>>]
    /\ completed = EmptyCache

StageOff ==
    /\ mapping = EmptyCache /\ registry = EmptyCache /\ default_block = 0
    /\ resolved = EmptyCache

(***************************************************************************)
(* Inputs of process                                                       *)
(***************************************************************************)
CHUNK_SIZE == 16

Section(y, pal, palUp, bs, bsUp) ==
    [y |-> y, palette |-> pal, palette_upper |-> palUp,
     block_states |-> bs, block_states_upper |-> bsUp]

Record(level, lower, upper) ==
    [level |-> level, sections_lower |-> lower, sections_upper |-> upper]

Level(upper, lower) == [sections_upper |-> upper, sections_lower |-> lower]

NameStone == <<"a", ":", "a">>      \* no override, "a" is block 5
NameMapped == <<"a">>              \* overridden to "a:A", block 6
NameUnknown == <<"A", "A">>        \* no ':' and no override: the default block

\* a section of y = k holding one block everywhere
Solid(k) == Section(k, Some(<<NameStone>>), None, None, None)

GoodWorld(rec) ==
    [exists |-> TRUE, region |-> <<0, 0>>, size |-> 4 * SectorBytes, slot |-> 1023,
     location |-> 513, length |-> 100, compression |-> 2, payload |-> "zlib",
     nbt |-> Some(rec)]

SolidRecord == Record(None, Some(<<Solid(0)>>), None)

AllWorlds ==
    [exists : BOOLEAN, region : {<<0, 0>>, <<-1, 0>>},
     size : {0, 4095, 8195, 8196, 8296, 12288, 4 * SectorBytes},
     slot : {0, 1023}, location : {0, 1, 512, 513, 770},
     length : {0, 1, 100, 4096, 4097, 8192},
     compression : 0..3, payload : {"gzip", "zlib", "garbage"},
     nbt : {None, Some(SolidRecord)}]

\* the region files that differ from a readable one in at most MaxDamage fields
Damage(w) == Cardinality({f \in DOMAIN w : w[f] # GoodWorld(SolidRecord)[f]})
Worlds == {w \in AllWorlds : Damage(w) <= MaxDamage}

ChunkAt(cx, cz) == [coords |-> <<cx, cz>>, min |-> <<cx * CHUNK_SIZE, 0, cz * CHUNK_SIZE>>]

OptLists(k) == {None, Some(<<>>), Some(<<Solid(k)>>)}
Records ==
    {Record(lv, lo, up) :
        lv \in {None} \cup {Some(Level(u, l)) : u \in OptLists(1), l \in OptLists(0)},
        lo \in OptLists(2), up \in OptLists(3)}

\* <<palette, Palette>> and <<block_states, BlockStates>> of a section
PalettePairs ==
    {<<None, None>>, <<None, Some(<<NameMapped>>)>>, <<Some(<<>>), Some(<<NameMapped>>)>>,
     <<Some(<<AirName, NameStone>>), None>>,
     <<Some(<<NameStone, NameMapped, NameUnknown>>), Some(<<NameMapped>>)>>}
WordPairs ==
    {<<None, None>>, <<None, Some(<<SignWord, ZeroWord>>)>>,
     <<Some(<<>>), Some(<<SignWord, ZeroWord>>)>>, <<Some(<<MixWord>>), None>>,
     <<Some(<<OnesWord, MixWord>>), Some(<<SignWord, ZeroWord>>)>>}
SectionYs == {-1, 0, 1}
\* <<y_offset, max_height, default_block>>
Configs == {<<-8, 16, 0>>, <<-8, 24, 7>>, <<0, 16, 7>>, <<0, 24, 0>>}

VoxelSections ==
    {Section(y, p[1], p[2], b[1], b[2]) : y \in SectionYs, p \in PalettePairs, b \in WordPairs}

\* section lists: any first section, then sections at y = 1
MoreSections == {Section(1, Some(<<AirName, NameMapped>>), None, Some(<<MixWord>>), None)}
SectionLists ==
    UNION {{<<s>> \o more : s \in VoxelSections, more \in [1..n -> MoreSections]} :
             n \in 0..(MaxSections - 1)}

ProcOff ==
    /\ y_offset = 0 /\ world = GoodWorld(Record(None, None, None))
    /\ chunk = ChunkAt(0, 0) /\ max_height = 0 /\ ppc = "off" /\ loaded = FALSE
    /\ sections = <<>> /\ set_calls = <<>> /\ resolve_count = 0

StageInit ==
    /\ mapping = (<<"a">> :> <<"a", ":", "A">>)
    /\ registry = FullRegistry
    /\ resolved = EmptyCache

ProcessInit ==
    /\ CodecOff /\ ThreadsOff /\ StageInit
    /\ lpc = "off" /\ located = Panic /\ coords = <<0, 0>> /\ overflow_checks = TRUE
    /\ ppc = "process" /\ loaded = FALSE
    /\ sections = <<>> /\ set_calls = <<>> /\ resolve_count = 0
    /\ \/ \* any region file, a record of one solid section
          /\ world \in Worlds
          /\ chunk \in {ChunkAt(31, 31), ChunkAt(0, 0), ChunkAt(-1, 31)}
          /\ y_offset = 0 /\ max_height = 16 /\ default_block = 7
       \/ \* a readable record of any shape
          /\ \E rec \in Records : world = GoodWorld(rec)
          /\ chunk = ChunkAt(31, 31)
          /\ y_offset = 0 /\ max_height = 64 /\ default_block = 7
       \/ \* a readable record with a top-level list of sections
          /\ \E secs \in SectionLists : world = GoodWorld(Record(None, Some(secs), None))
          /\ chunk = ChunkAt(31, 31)
          /\ \E c \in Configs : y_offset = c[1] /\ max_height = c[2] /\ default_block = c[3]

\* MinecraftAnvilStage::new(..).with_mapping(..).with_default_block(..)
\* shared by NumThreads threads, which make up to MaxCalls calls
Init ==
    /\ CodecOff /\ LocOff /\ ProcOff
    /\ \E raw \in ConcRawMappings : mapping \in with_mapping(raw)
    /\ registry \in ConcRegistries
    /\ default_block = 7
    /\ resolved = EmptyCache
    /\ tpc = [t \in Threads |-> "idle"]
    /\ tname = [t \in Threads |-> <<>>]
    /\ tblock = [t \in Threads |-> 0]
    /\ tret = [t \in Threads |-> <<>>]
    /\ calls_left = MaxCalls
    /\ looked = [t \in Threads |-> FALSE]
    /\ touched = [t \in Threads |-> FALSE]
    /\ late = [t \in Threads |-> <<>>]
    /\ completed = EmptyCache

\* one call on a fresh stage, for every name, override table and registry
ResolveInit ==
    /\ CodecOff /\ LocOff /\ ProcOff
    /\ \E raw \in RawMappings : mapping \in with_mapping(raw)
    /\ registry \in Registries
    /\ default_block = 7
    /\ resolved = EmptyCache
    /\ tpc = [t \in Threads |-> "idle"]
    /\ tname = [t \in Threads |-> <<>>]
    /\ tblock = [t \in Threads |-> 0]
    /\ tret = [t \in Threads |-> <<>>]
    /\ calls_left = 1
    /\ looked = [t \in Threads |-> FALSE]
    /\ touched = [t \in Threads |-> FALSE]
    /\ late = [t \in Threads |-> <<>>]
    /\ completed = EmptyCache

(***************************************************************************)
(* Specifications                                                          *)
(***************************************************************************)
NextCodec == DecodeBlockStates \/ BitsForPalette

CodecInit == InitCodec /\ LocOff /\ StageOff /\ ThreadsOff /\ ProcOff

SpecCodec == CodecInit /\ [][NextCodec]_vars

NextLoc == LocateRegion

LocInit == InitLoc /\ CodecOff /\ StageOff /\ ThreadsOff /\ ProcOff

Next ==
    \/ \E t \in Threads : \E n \in ConcNames : Call(t, n)
    \/ \E t \in Threads : ReadCache(t)
    \/ \E t \in Threads : Resolve(t)
    \/ \E t \in Threads : WriteCache(t)

Spec == Init /\ [][Next]_vars

NextResolve ==
    \/ \E t \in Threads : \E n \in AllNames : Call(t, n)
    \/ \E t \in Threads : ReadCache(t)
    \/ \E t \in Threads : Resolve(t)
    \/ \E t \in Threads : WriteCache(t)

SpecResolve == ResolveInit /\ [][NextResolve]_vars

NextProcess == Process

SpecProcess == ProcessInit /\ [][NextProcess]_vars

SpecLoc == LocInit /\ [][NextLoc]_vars

(***************************************************************************)
(* Packed-index codec: properties                                          *)
(***************************************************************************)
\* smallest k with 2^k >= n
CeilLog2(n) == CHOOSE k \in 0..16 : Pow2(k) >= n /\ (k = 0 \/ Pow2(k - 1) < n)
WidthFor(len) == Max(4, CeilLog2(len))

\* C1: packing 4096 indices of width b (4..9) LSB first into a continuous
\* stream of 64-bit words and decoding the words returns the same indices,
\* whatever the words hold, bit 63 included
C1_RoundTrip ==
    (cpc = "decoded" /\ src # <<>>) => indices = src

\* C8: decode_block_states always returns 4096 indices; all are 0 when
\* palette_len <= 1; otherwise the loop produces min(4096, floor(64 n / b))
\* entries from the n words and every later entry is 0
C8_TotalZeroFill ==
    cpc = "decoded" =>
        /\ Len(indices) = SECTION_VOLUME
        /\ palette_len <= 1 => \A i \in 1..SECTION_VOLUME : indices[i] = 0
        /\ palette_len >= 2 =>
              LET k == Min(SECTION_VOLUME, (I64Bits * Len(data)) \div WidthFor(palette_len))
              IN /\ pushed = k
                 /\ \A i \in (k + 1)..SECTION_VOLUME : indices[i] = 0

\* a truncated stream: 3 words at width 9 give 21 entries, the rest is filled
C8_Witness ==
    /\ cpc = "decoded" /\ palette_len = 257 /\ Len(data) = 3
    /\ pushed = 21 /\ indices[21] # 0 /\ indices[22] = 0
    /\ Len(indices) = SECTION_VOLUME

\* C10: for palette_len >= 2, bits_for_palette is max(4, ceil(log2 palette_len)):
\* 4 for every length in 2..16 and 5 for 17
C10_BitWidth ==
    (cpc = "bitsdone" /\ palette_len >= 2) =>
        /\ bits_out = WidthFor(palette_len)
        /\ palette_len \in 2..16 => bits_out = 4
        /\ palette_len = 17 => bits_out = 5

C10_Witness == cpc = "bitsdone" /\ palette_len = 17 /\ bits_out = 5

(***************************************************************************)
(* Block name resolver: properties                                         *)
(***************************************************************************)
Range(f) == {f[k] : k \in DOMAIN f}
HasColon(n) == \E i \in 1..Len(n) : n[i] = ":"
AfterFirstColon(n) ==
    CHOOSE suf \in {SubSeq(n, i + 1, Len(n)) : i \in 1..Len(n)} :
        \E i \in 1..Len(n) :
            /\ n[i] = ":" /\ ~HasColon(SubSeq(n, 1, i - 1))
            /\ suf = SubSeq(n, i + 1, Len(n))

\* the result the claim gives for name n
C5_Expected(n) ==
    IF n = AirName THEN 0
    ELSE LET target == IF to_lowercase(n) \in DOMAIN mapping THEN <<mapping[to_lowercase(n)]>>
                       ELSE IF HasColon(n) THEN <<AfterFirstColon(n)>>
                       ELSE <<>>
         IN IF target # <<>> /\ to_lowercase(target[1]) \in DOMAIN registry
            THEN registry[to_lowercase(target[1])]
            ELSE default_block

\* C5: on an empty cache resolve_block_id returns 0 for "minecraft:air";
\* otherwise the registry id of the lowercased target (the override of the
\* lowercased name, else the part after the first ':') when there is one and
\* the registry has it, and the default id in every other case; so the
\* result is 0, an id of the registry or the default id
C5_ResolveResult ==
    \A t \in Threads :
        tret[t] # <<>> =>
            /\ tret[t][1] = C5_Expected(tname[t])
            /\ tret[t][1] \in {0, default_block} \cup Range(registry)

\* "A:a" is overridden (key "a:a") to "A", found in the registry as "a"
C5_Witness ==
    \E t \in Threads :
    /\ tname[t] = <<"A", ":", "a">> /\ tret[t] = <<5>>
    /\ <<"a", ":", "a">> \in DOMAIN mapping
    /\ mapping[<<"a", ":", "a">>] = <<"A">>
    /\ default_block = 7 /\ looked[t]

\* C6: a call for a non-air name that begins after a call for the same
\* name has returned gives the same id without a registry lookup; a call
\* for "minecraft:air" returns 0 without touching the cache or the
\* registry, and the cache never has "minecraft:air" as a key
C6_CacheHit ==
    /\ \A t \in Threads :
          /\ (late[t] # <<>> /\ tname[t] # AirName) =>
                /\ ~looked[t]
                /\ tpc[t] \notin {"resolve", "write"}
                /\ tret[t] # <<>> => tret[t] = late[t]
          /\ (tret[t] # <<>> /\ tname[t] = AirName) =>
                tret[t] = <<0>> /\ ~touched[t] /\ ~looked[t]
    /\ AirName \notin DOMAIN resolved

\* a second call served from the cache, next to an air call
C6_Witness ==
    \E t, u \in Threads :
        /\ late[t] # <<>> /\ tname[t] = <<"A", ":", "a">>
        /\ tret[t] = late[t] /\ touched[t] /\ ~looked[t]
        /\ tname[u] = AirName /\ tret[u] = <<0>>

\* C9: with threads interleaving their read, resolution and insertion
\* steps, (a) every call returns what a single-threaded call on an empty
\* cache returns, (b) no key ever leaves the cache, (c) no entry ever
\* changes its value
C9_ReturnsSequential ==
    \A t \in Threads :
        tret[t] # <<>> =>
            tret[t][1] = resolve_block_id(EmptyCache, mapping, registry,
                                          default_block, tname[t]).id
C9_Concurrent ==
    /\ []C9_ReturnsSequential
    /\ [][/\ DOMAIN resolved \subseteq DOMAIN resolved'
          /\ \A k \in DOMAIN resolved : resolved'[k] = resolved[k]]_vars

\* two threads missed on the same name and both inserted it
C9_Witness ==
    \E t, u \in Threads :
        /\ t # u /\ tname[t] = tname[u] /\ looked[t] /\ looked[u]
        /\ tret[t] # <<>> /\ tret[t] = tret[u]
        /\ tname[t] \in DOMAIN resolved
        /\ Cardinality(DOMAIN resolved) >= 2

(***************************************************************************)
(* Region locator: properties                                              *)
(***************************************************************************)
\* C7: split_region_coord(v) = (floor(v / 32), v - 32 * floor(v / 32)) with the
\* local part in [0, 32) for every i32 v, without overflow, so that the
\* header slot index local_z * 32 + local_x lies in [0, 1024)
FloorRegion(v) == v \div REGION_SIZE
C7_SplitIsFloor ==
    lpc = "returned" =>
        /\ ~located.panic
        /\ located.region_x = FloorRegion(coords[1])
        /\ located.region_z = FloorRegion(coords[2])
        /\ located.local_x = coords[1] - REGION_SIZE * FloorRegion(coords[1])
        /\ located.local_z = coords[2] - REGION_SIZE * FloorRegion(coords[2])
        /\ located.local_x \in 0..(REGION_SIZE - 1)
        /\ located.local_z \in 0..(REGION_SIZE - 1)
        /\ located.index \in 0..(REGION_SIZE * REGION_SIZE - 1)

(***************************************************************************)
(* process: properties                                                     *)
(***************************************************************************)
\* the record the region file holds for the chunk
Parsed == world.nbt[1]
InLevel == Parsed.level[1]

\* the order the claim gives: Level's "sections", Level's "Sections",
\* the top-level "sections", the top-level "Sections", else nothing
ClaimedSections ==
    IF Parsed.level # None /\ InLevel.sections_lower # None THEN InLevel.sections_lower[1]
    ELSE IF Parsed.level # None /\ InLevel.sections_upper # None THEN InLevel.sections_upper[1]
    ELSE IF Parsed.sections_lower # None THEN Parsed.sections_lower[1]
    ELSE IF Parsed.sections_upper # None THEN Parsed.sections_upper[1]
    ELSE <<>>

\* C2 as stated: the sections of a loaded record are the first list present
\* among Level's "sections", Level's "Sections", the top-level "sections"
\* and the top-level "Sections", and empty when there is none
C2_Original ==
    (ppc = "returned" /\ loaded) => sections = ClaimedSections

\* C2 amended: a record with a Level wrapper yields Level's "Sections" when
\* present, else Level's "sections", else the empty list, whatever the
\* top-level keys hold; a record without the wrapper yields the top-level
\* "sections" when present, else the top-level "Sections", else the empty list
C2_Amended ==
    (ppc = "returned" /\ loaded) =>
        /\ Parsed.level # None =>
              /\ InLevel.sections_upper # None => sections = InLevel.sections_upper[1]
              /\ (InLevel.sections_upper = None /\ InLevel.sections_lower # None) =>
                    sections = InLevel.sections_lower[1]
              /\ (InLevel.sections_upper = None /\ InLevel.sections_lower = None) =>
                    sections = <<>>
        /\ Parsed.level = None =>
              /\ Parsed.sections_lower # None => sections = Parsed.sections_lower[1]
              /\ (Parsed.sections_lower = None /\ Parsed.sections_upper # None) =>
                    sections = Parsed.sections_upper[1]
              /\ (Parsed.sections_lower = None /\ Parsed.sections_upper = None) =>
                    sections = <<>>

\* a Level wrapper with both lists, next to both top-level lists: the
\* "Sections" list of the wrapper is the one processed
C2_Witness ==
    /\ ppc = "returned" /\ loaded
    /\ Parsed.level # None
    /\ InLevel.sections_upper = Some(<<Solid(1)>>)
    /\ InLevel.sections_lower = Some(<<Solid(0)>>)
    /\ Parsed.sections_lower # None /\ Parsed.sections_upper # None
    /\ sections = <<Solid(1)>>
    /\ set_calls # <<>>

\* the steps at which the claim says load_chunk gives up
SlotValue ==
    IF world.slot = (chunk.coords[2] % REGION_SIZE) * REGION_SIZE + (chunk.coords[1] % REGION_SIZE)
    THEN world.location ELSE 0
SectorOffset == SlotValue \div 256
SectorCount == SlotValue % 256
RecordStart == SectorOffset * SectorBytes
LoadFails ==
    \/ ~world.exists
    \/ world.region # <<chunk.coords[1] \div REGION_SIZE, chunk.coords[2] \div REGION_SIZE>>
    \/ world.size < HeaderBytes
    \/ SlotValue = 0
    \/ SectorOffset = 0 \/ SectorCount = 0
    \/ world.size < RecordStart + 4 + world.length
    \/ world.length = 0 \/ world.length > SectorCount * SectorBytes
    \/ world.compression \notin {1, 2}
    \/ (world.compression = 1 /\ world.payload # "gzip")
    \/ (world.compression = 2 /\ world.payload # "zlib")
    \/ world.nbt = None

\* C3: when load_chunk fails at any of its steps, process returns with no
\* set_voxel call, no resolver call and the cache as it was; it does not panic
C3_AbsentUnchanged ==
    (ppc = "returned" /\ LoadFails) =>
        /\ ~loaded
        /\ set_calls = <<>>
        /\ resolve_count = 0
        /\ resolved = EmptyCache

\* a record longer than the sectors its header slot reserves, in a file
\* that is otherwise readable and long enough
C3_Witness ==
    /\ ppc = "returned" /\ ~loaded
    /\ world.exists /\ SlotValue = 513 /\ world.length = 4097
    /\ world.size >= RecordStart + 4 + world.length
    /\ world.compression = 2 /\ world.payload = "zlib" /\ world.nbt # None
    /\ set_calls = <<>> /\ resolve_count = 0

\* the palette and the words of a section, lowercase key first
PaletteOf(s) ==
    IF s.palette # None THEN s.palette[1]
    ELSE IF s.palette_upper # None THEN s.palette_upper[1] ELSE <<>>
WordsOf(s) ==
    IF s.block_states # None THEN s.block_states[1]
    ELSE IF s.block_states_upper # None THEN s.block_states_upper[1] ELSE <<>>

\* the writes the claim gives for section s
EligibleWrites(s) ==
    LET pal == PaletteOf(s)
        L == Len(pal)
        ids == Tuple([k \in 1..L |-> C5_Expected(pal[k])], L)
        base_y == s.y * 16 + y_offset
        p == decode_block_states(WordsOf(s), L)
        Eligible(i) ==
            /\ p[i + 1] < L
            /\ ids[p[i + 1] + 1] # 0
            /\ 0 <= base_y + (i \div 256)
            /\ base_y + (i \div 256) < max_height
    IN IF L = 0 THEN {}
       ELSE {<<chunk.min[1] + (i % 16), base_y + (i \div 256),
               chunk.min[3] + ((i \div 16) % 16), ids[p[i + 1] + 1]>> :
                 i \in {j \in 0..(SECTION_VOLUME - 1) : Eligible(j)}}

\* C4: the set_voxel calls of process are exactly, for every section with a
\* non-empty palette of length L and every position i in 0..4095 with decoded
\* index p < L, resolved id not 0 and 0 <= base_y + (i >> 8) < max_height, the
\* call (chunk_min_x + (i & 15), base_y + (i >> 8), chunk_min_z + ((i >> 4) & 15), id),
\* each made once per section; sections wholly outside [0, max_height) write nothing
C4_VoxelWrites ==
    (ppc = "returned" /\ loaded) =>
        /\ Range(set_calls) = UNION {EligibleWrites(sections[k]) : k \in 1..Len(sections)}
        /\ Len(sections) = 1 => Len(set_calls) = Cardinality(Range(set_calls))
        /\ (\A k \in 1..Len(sections) :
               \/ sections[k].y * 16 + y_offset >= max_height
               \/ sections[k].y * 16 + y_offset + 15 < 0) => set_calls = <<>>

\* one section straddling y = 0 whose palette holds air, a block and more
\* entries than the words select: some positions are written, the air ones,
\* the out-of-palette ones and the ones below 0 are not
C4_Witness ==
    /\ ppc = "returned" /\ loaded
    /\ Len(sections) = 1 /\ sections[1].y = 0 /\ y_offset = -8
    /\ PaletteOf(sections[1]) = <<NameStone, NameMapped, NameUnknown>>
    /\ WordsOf(sections[1]) = <<OnesWord, MixWord>>
    /\ default_block = 0
    /\ set_calls # <<>>
    /\ \A k \in 1..Len(set_calls) : set_calls[k][2] \in 0..7

====
